---- MODULE Spec2Model ----
(***************************************************************************)
(* Model of artefact_adder.py: the pixel transforms written in numpy       *)
(* (color_banding, salt_and_pepper_noise, chromatic_aberration), the       *)
(* probabilistic forwarder simulate_frame_dropping and the pipeline driver *)
(* add_artifacts.                                                          *)
(*                                                                         *)
(* A frame is a function row -> column -> channel -> 0..255 with rows      *)
(* 0..h-1, columns 0..w-1 and channels 0..2 (numpy's frame[r, c, ch]).     *)
(* Probabilities and np.random.rand() draws are counted in thousandths,    *)
(* salt_and_pepper's amount in hundredths.                                 *)
(***************************************************************************)
EXTENDS Integers, Sequences, FiniteSets, TLC

VARIABLES
    pc,            \* where add_artifacts is: idle, streaming, closed, returned, raised
    video,         \* the input file behind input_video_path
    drop_rate,     \* add_artifacts' drop_rate argument, in thousandths
    cap,           \* the cv2.VideoCapture: none, open, failed, released
    sinks,         \* the ten cv2.VideoWriter objects: state and frames written
    stills,        \* per transform, the images cv2.imwrite stored, in order
    console,       \* the lines printed
    frame_number,  \* add_artifacts' frame_number
    saved_images,  \* add_artifacts' saved_images
    nread,         \* number of cap.read() calls made
    call           \* a single transform call: its arguments, position and result

vars == <<pc, video, drop_rate, cap, sinks, stills, console, frame_number,
          saved_images, nread, call>>

pipeline_vars == <<pc, video, drop_rate, cap, sinks, stills, console,
                   frame_number, saved_images, nread>>

(***************************************************************************)
(* Bounds of the model.                                                    *)
(***************************************************************************)
MaxFrames == 2        \* videos explored with every size, drop rate and draw
MaxLongFrames == 21   \* longer videos, explored with one size and drop rate
MaxDim == 3           \* largest height and width of a frame in a single call
MaxShift == 4         \* largest |shift| of a single chromatic_aberration call

(***************************************************************************)
(* Program constants: the defaults of add_artifacts (line 96) and the      *)
(* progress interval (line 191).                                           *)
(***************************************************************************)
noise_level == 80
compression_quality == 1
kernel_size == 15
color_branding_levels == 8
salt_and_pepper_amount == 1        \* 0.01, in hundredths
chromatic_aberration_shift == 2
dust_particles == 10
lens_k1 == -5                      \* -0.5, in tenths
lens_k2 == 0
default_drop_rate == 100           \* 0.1, in thousandths
progress_every == 10

input_video == "input_video.mp4"

(***************************************************************************)
(* Frames.                                                                 *)
(***************************************************************************)
Height(frame) == Cardinality(DOMAIN frame)
Width(frame) == Cardinality(DOMAIN frame[0])

\* frame.shape and frame.size of an h x w x 3 array
shape(frame) == <<Height(frame), Width(frame), 3>>
size(frame) == Height(frame) * Width(frame) * 3

\* A synthetic frame whose pixel values all differ with position and seed.
MakeFrame(h, w, seed) ==
    [r \in 0..(h - 1) |-> [c \in 0..(w - 1) |-> [ch \in 0..2 |->
        (61 * seed + 50 * r + 20 * c + 7 * ch) % 256]]]

(***************************************************************************)
(* color_banding (lines 29-31): (frame // (256 // levels)) * (256 // levels)*)
(* on uint8 values.                                                        *)
(***************************************************************************)
\* A rounding slip: quantises to the nearest multiple instead of the lower one.
band_nearest(v, levels) ==
    LET step == 256 \div levels
    IN  (((v + step \div 2) \div step) * step) % 256

\* One channel value through line 30.  The step 256 // levels is a Python int;
\* for levels >= 2 it fits uint8 and the product never exceeds the input, and
\* for levels = 1 (step 256) the quotient is 0, as numpy computes it when it
\* widens the array for a scalar that does not fit uint8.
band(v, levels) ==
    LET step == 256 \div levels
    IN  ((v \div step) * step) % 256

color_banding(frame, levels) ==
    [r \in DOMAIN frame |-> [c \in DOMAIN frame[r] |-> [ch \in 0..2 |->
        band(frame[r][c][ch], levels)]]]

(***************************************************************************)
(* chromatic_aberration (lines 71-76).                                     *)
(***************************************************************************)
\* cv2.split: the plane of one channel; cv2.merge: three planes to a frame.
split(frame, ch) ==
    [r \in DOMAIN frame |-> [c \in DOMAIN frame[r] |-> frame[r][c][ch]]]

merge(b, g, r) ==
    [y \in DOMAIN b |-> [x \in DOMAIN b[y] |->
        [ch \in 0..2 |-> IF ch = 0 THEN b[y][x]
                         ELSE IF ch = 1 THEN g[y][x] ELSE r[y][x]]]]

\* A shift that is not circular: columns shifted in from outside read 0.
roll_no_wrap(plane, shift) ==
    [y \in DOMAIN plane |-> [x \in DOMAIN plane[y] |->
        IF (x - shift) \in DOMAIN plane[y] THEN plane[y][x - shift] ELSE 0]]

\* np.roll(plane, shift, axis=1): column x moves to column (x + shift) mod w.
roll(plane, shift) ==
    LET w == Cardinality(DOMAIN plane[0])
    IN  [y \in DOMAIN plane |-> [x \in DOMAIN plane[y] |->
            plane[y][(x - shift) % w]]]

chromatic_aberration(frame, shift) ==
    LET b == roll(split(frame, 0), shift)
        g == split(frame, 1)
        r == roll(split(frame, 2), 0 - shift)
    IN  merge(b, g, r)

(***************************************************************************)
(* salt_and_pepper_noise (lines 34-45).                                    *)
(***************************************************************************)
\* np.ceil(amount * frame.size * 0.5), amount in hundredths (lines 36-37).
num_salt(frame, amount) == (amount * size(frame) + 199) \div 200

\* The values np.random.randint(low, high) can return: low <= x < high.
\* With low >= high the set is empty and numpy raises ValueError.
randint(low, high) == low..(high - 1)

\* The index arrays one "[np.random.randint(0, i - 1, n) for i in frame.shape]"
\* can give for dimension i of the shape (lines 39 and 42).
coords(frame, dim, n) == [1..n -> randint(0, shape(frame)[dim] - 1)]

\* Lines 39 and 42 raise when a dimension leaves randint no value to draw.
salt_and_pepper_raises(frame) ==
    \E dim \in 1..3 : randint(0, shape(frame)[dim] - 1) = {}

\* noisy_frame[rows, cols, :] = value (lines 40 and 43).
set_pixels(frame, rows, cols, value) ==
    [r \in DOMAIN frame |-> [c \in DOMAIN frame[r] |->
        IF \E k \in DOMAIN rows : rows[k] = r /\ cols[k] = c
        THEN [ch \in 0..2 |-> value]
        ELSE frame[r][c]]]

\* Every frame the call can return (none when it raises).
salt_and_pepper_noise(frame, amount) ==
    LET n == num_salt(frame, amount)
    IN  { set_pixels(set_pixels(frame, sr, sc, 255), pr, pc_, 0) :
            sr \in coords(frame, 1, n), sc \in coords(frame, 2, n),
            pr \in coords(frame, 1, n), pc_ \in coords(frame, 2, n) }

(***************************************************************************)
(* The transforms computed inside OpenCV.  Their pixel arithmetic is the   *)
(* library's; a result is kept as the application of the named transform   *)
(* to its frame and parameters.                                            *)
(***************************************************************************)
cv2_result(name, frame, parameters) ==
    [transform |-> name, frame |-> frame, parameters |-> parameters]

gaussian_noise(frame, level) == cv2_result("gaussian_noise", frame, <<level>>)
compression_artifacts(frame, quality) == cv2_result("compression", frame, <<quality>>)
motion_blur(frame, ksize) == cv2_result("motion_blur", frame, <<ksize>>)
lens_distortion(frame, k1, k2) == cv2_result("lens_distortion", frame, <<k1, k2>>)
vignetting(frame) == cv2_result("vignetting", frame, <<>>)
dust_dirt_particles(frame, num_particles) ==
    cv2_result("dust_particles", frame, <<num_particles>>)

(***************************************************************************)
(* The pipeline driver add_artifacts (lines 96-205).                       *)
(***************************************************************************)
\* The ten cv2.VideoWriter sinks in the order lines 108-117 create them, and
\* the nine transforms whose first result is also stored as a still image.
SinkNames == <<"gaussian_noise", "compression", "motion_blur", "color_banding",
               "salt_pepper_noise", "lens_distortion", "vignetting",
               "chromatic_aberration", "dust_particles", "frame_dropping">>
Sinks == {SinkNames[i] : i \in 1..Len(SinkNames)}
NonDropping == Sinks \ {"frame_dropping"}
\* The transforms that run before salt_and_pepper_noise in an iteration.
BeforeSaltPepper == {SinkNames[i] : i \in 1..4}

\* The values np.random.rand() is sampled at, in thousandths: 0.0, 0.1, 0.999.
RandDraws == {0, 100, 999}

\* The k-th frame cap.read() decodes (k = 1, 2, ...).
SourceFrame(v, k) == MakeFrame(v.h, v.w, k)

\* cv2.VideoWriter.write and cv2.VideoWriter.release
write(out, frame) == [out EXCEPT !.frames = Append(@, frame)]
release(out) == [out EXCEPT !.state = "released"]

\* simulate_frame_dropping (lines 91-93), u the value np.random.rand() returned.
simulate_frame_dropping(frame, out, rate, u) ==
    IF u > rate THEN write(out, frame) ELSE out

\* A copy-paste slip: the banding sink is handed the decoded frame, not banded_frame.
Outputs_unbanded(frame, sp) ==
    [n \in NonDropping |->
        CASE n = "gaussian_noise" -> gaussian_noise(frame, noise_level)
          [] n = "compression" -> compression_artifacts(frame, compression_quality)
          [] n = "motion_blur" -> motion_blur(frame, kernel_size)
          [] n = "color_banding" -> frame
          [] n = "salt_pepper_noise" -> sp
          [] n = "lens_distortion" -> lens_distortion(frame, lens_k1, lens_k2)
          [] n = "vignetting" -> vignetting(frame)
          [] n = "chromatic_aberration" ->
                 chromatic_aberration(frame, chromatic_aberration_shift)
          [] n = "dust_particles" -> dust_dirt_particles(frame, dust_particles)]

\* What the nine transforms return for one frame (lines 131-179), sp being the
\* frame salt_and_pepper_noise returned.
Outputs(frame, sp) ==
    [n \in NonDropping |->
        CASE n = "gaussian_noise" -> gaussian_noise(frame, noise_level)
          [] n = "compression" -> compression_artifacts(frame, compression_quality)
          [] n = "motion_blur" -> motion_blur(frame, kernel_size)
          [] n = "color_banding" -> color_banding(frame, color_branding_levels)
          [] n = "salt_pepper_noise" -> sp
          [] n = "lens_distortion" -> lens_distortion(frame, lens_k1, lens_k2)
          [] n = "vignetting" -> vignetting(frame)
          [] n = "chromatic_aberration" ->
                 chromatic_aberration(frame, chromatic_aberration_shift)
          [] n = "dust_particles" -> dust_dirt_particles(frame, dust_particles)]

\* Console lines.
ErrorLine(path) == [kind |-> "error", text |-> path, n |-> 0, of |-> 0]
StartLine(count) == [kind |-> "start", text |-> "", n |-> 0, of |-> count]
ProgressLine(n, count) == [kind |-> "progress", text |-> "", n |-> n, of |-> count]
CompleteLine == [kind |-> "complete", text |-> "", n |-> 0, of |-> 0]

\* An off-by-one: the test made before frame_number is incremented.
progress_before_increment(lines, n, count) ==
    IF (n - 1) % progress_every = 0
    THEN Append(lines, ProgressLine(n, count)) ELSE lines

\* Lines 191-192.
progress(lines, n, count) ==
    IF n % progress_every = 0 THEN Append(lines, ProgressLine(n, count)) ELSE lines

\* The flag never set: lines 187-188 left out.
saved_after_never_set(saved) == saved

\* Lines 187-188: the flag after an iteration.
saved_after(saved) == TRUE

\* The still images after an iteration that ran the transforms in `done`
\* (the "if not saved_images: cv2.imwrite(...)" of lines 133-182); a still
\* image file is kept as the sequence of images written to it.
stills_after(images, saved, outs, done) ==
    IF saved THEN images
    ELSE [n \in NonDropping |->
            IF n \in done THEN Append(images[n], outs[n]) ELSE images[n]]

\* The input files explored.  nframes frames are stored, the first `readable` of
\* them decode (readable < nframes: a decode failure), and frame_count is what
\* the container reports for CAP_PROP_FRAME_COUNT.
VideoSizes == {<<1, 2>>, <<2, 1>>, <<2, 2>>, <<3, 2>>}

Unopenable ==
    [path |-> input_video, opens |-> FALSE, h |-> 0, w |-> 0, nframes |-> 0,
     readable |-> 0, frame_count |-> 0]

ShortVideos ==
    { [path |-> input_video, opens |-> TRUE, h |-> s[1], w |-> s[2],
       nframes |-> n, readable |-> j, frame_count |-> fc] :
        s \in VideoSizes, n \in 0..MaxFrames, j \in 0..MaxFrames,
        fc \in 0..MaxFrames }

LongVideos ==
    { [path |-> input_video, opens |-> TRUE, h |-> 2, w |-> 2,
       nframes |-> n, readable |-> j, frame_count |-> n] :
        n \in 0..MaxLongFrames, j \in 0..MaxLongFrames }

DropRates == {0, default_drop_rate, 1000}

NoCall == [fn |-> "none"]

NoSink == [state |-> "none", frames |-> <<>>]

Init ==
    /\ pc = "idle"
    /\ \/ video = Unopenable /\ drop_rate = default_drop_rate
       \/ video \in {v \in ShortVideos : v.readable <= v.nframes}
          /\ drop_rate \in DropRates
       \/ video \in {v \in LongVideos : v.readable <= v.nframes}
          /\ drop_rate = 1000
    /\ cap = "none"
    /\ sinks = [n \in Sinks |-> NoSink]
    /\ stills = [n \in NonDropping |-> <<>>]
    /\ console = <<>>
    /\ frame_number = 0
    /\ saved_images = FALSE
    /\ nread = 0
    /\ call = NoCall

\* A slip in the order of lines 97-117: the writers are created before the
\* capture is checked.
OpenFailsAfterSinks ==
    /\ pc = "idle"
    /\ ~video.opens
    /\ cap' = "failed"
    /\ sinks' = [n \in Sinks |-> [state |-> "open", frames |-> <<>>]]
    /\ console' = Append(console, ErrorLine(video.path))
    /\ pc' = "returned"
    /\ UNCHANGED <<video, drop_rate, stills, frame_number, saved_images, nread, call>>

\* Lines 97-101: the capture does not open; report and return.
OpenFails ==
    /\ pc = "idle"
    /\ ~video.opens
    /\ cap' = "failed"
    /\ console' = Append(console, ErrorLine(video.path))
    /\ pc' = "returned"
    /\ UNCHANGED <<video, drop_rate, sinks, stills, frame_number, saved_images,
                   nread, call>>

\* Lines 97-123: the capture opens; create the ten writers, print the start line.
OpenSucceeds ==
    /\ pc = "idle"
    /\ video.opens
    /\ cap' = "open"
    /\ sinks' = [n \in Sinks |-> [state |-> "open", frames |-> <<>>]]
    /\ console' = Append(console, StartLine(video.frame_count))
    /\ frame_number' = 0
    /\ saved_images' = FALSE
    /\ pc' = "streaming"
    /\ UNCHANGED <<video, drop_rate, stills, nread, call>>

\* Lines 126-192: one iteration of the loop on a frame that decodes.
Iterate ==
    /\ pc = "streaming"
    /\ frame_number < video.readable
    /\ LET frame == SourceFrame(video, frame_number + 1)
       IN  /\ ~salt_and_pepper_raises(frame)
           /\ \E sp \in salt_and_pepper_noise(frame, salt_and_pepper_amount),
                 u \in RandDraws :
                LET outs == Outputs(frame, sp)
                IN  /\ sinks' = [n \in Sinks |->
                            IF n = "frame_dropping"
                            THEN simulate_frame_dropping(frame, sinks[n], drop_rate, u)
                            ELSE write(sinks[n], outs[n])]
                    /\ stills' = stills_after(stills, saved_images, outs, NonDropping)
    /\ saved_images' = saved_after(saved_images)
    /\ frame_number' = frame_number + 1
    /\ console' = progress(console, frame_number + 1, video.frame_count)
    /\ nread' = nread + 1
    /\ UNCHANGED <<pc, video, drop_rate, cap, call>>

\* Lines 126-155: an iteration in which salt_and_pepper_noise raises.  The four
\* transforms before it have written; the exception leaves add_artifacts.
IterateRaises ==
    /\ pc = "streaming"
    /\ frame_number < video.readable
    /\ LET frame == SourceFrame(video, frame_number + 1)
           outs == Outputs(frame, frame)
       IN  /\ salt_and_pepper_raises(frame)
           /\ sinks' = [n \in Sinks |->
                   IF n \in BeforeSaltPepper THEN write(sinks[n], outs[n])
                   ELSE sinks[n]]
           /\ stills' = stills_after(stills, saved_images, outs, BeforeSaltPepper)
    /\ nread' = nread + 1
    /\ pc' = "raised"
    /\ UNCHANGED <<video, drop_rate, cap, console, frame_number, saved_images, call>>

\* A variant that tells a decode failure from the end of the stream and reports it.
closing_lines_reporting(lines, v, n) ==
    IF n < v.nframes
    THEN Append(Append(lines, ErrorLine(v.path)), CompleteLine)
    ELSE Append(lines, CompleteLine)

\* Line 205: what the run prints once the loop has exited.
closing_lines(lines, v, n) == Append(lines, CompleteLine)

\* Lines 126-128 and 194-205: cap.read() returns not-ok (end of stream or a frame
\* that does not decode); leave the loop, release everything, print completion.
EndOfStream ==
    /\ pc = "streaming"
    /\ frame_number = video.readable
    /\ nread' = nread + 1
    /\ cap' = "released"
    /\ sinks' = [n \in Sinks |-> release(sinks[n])]
    /\ console' = closing_lines(console, video, frame_number)
    /\ pc' = "closed"
    /\ UNCHANGED <<video, drop_rate, stills, frame_number, saved_images, call>>

Next == OpenFails \/ OpenSucceeds \/ Iterate \/ IterateRaises \/ EndOfStream

Spec == Init /\ [][Next]_vars

(***************************************************************************)
(* Single calls of the numpy transforms, for the claims about them.  The   *)
(* pipeline stays idle; `call` holds the arguments and the result.         *)
(***************************************************************************)
PipelineIdle ==
    /\ pc = "idle"
    /\ video = Unopenable
    /\ drop_rate = default_drop_rate
    /\ cap = "none"
    /\ sinks = [n \in Sinks |-> NoSink]
    /\ stills = [n \in NonDropping |-> <<>>]
    /\ console = <<>>
    /\ frame_number = 0
    /\ saved_images = FALSE
    /\ nread = 0

Called(fn, frame, arg) ==
    [fn |-> fn, at |-> "called", frame |-> frame, arg |-> arg,
     result |-> <<>>, back |-> <<>>]

\* color_banding -----------------------------------------------------------
\* Level counts tried: the divisors of 256 and some that do not divide it.
BandingLevels == {1, 2, 4, 8, 16, 32, 64, 128, 256, 3, 5, 100, 200}

InitBanding ==
    /\ PipelineIdle
    /\ \E d \in 1..MaxDim, seed \in 0..255, levels \in BandingLevels :
          call = Called("color_banding", MakeFrame(d, d, seed), levels)

CallColorBanding ==
    /\ call.fn = "color_banding"
    /\ call.at = "called"
    /\ call' = [call EXCEPT !.at = "returned",
                            !.result = color_banding(call.frame, call.arg)]
    /\ UNCHANGED pipeline_vars

NextBanding == CallColorBanding

SpecBanding == InitBanding /\ [][NextBanding]_vars

\* chromatic_aberration ----------------------------------------------------
InitChroma ==
    /\ PipelineIdle
    /\ \E h \in 1..MaxDim, w \in 1..MaxDim, seed \in 0..2,
          shift \in (0 - MaxShift)..MaxShift :
          call = Called("chromatic_aberration", MakeFrame(h, w, seed), shift)

CallChromaticAberration ==
    /\ call.fn = "chromatic_aberration"
    /\ call.at = "called"
    /\ call' = [call EXCEPT !.at = "returned",
                            !.result = chromatic_aberration(call.frame, call.arg)]
    /\ UNCHANGED pipeline_vars

\* A second call on the result, with the opposite shift.
CallChromaticAberrationBack ==
    /\ call.fn = "chromatic_aberration"
    /\ call.at = "returned"
    /\ call' = [call EXCEPT !.at = "inverted",
                            !.back = chromatic_aberration(call.result, 0 - call.arg)]
    /\ UNCHANGED pipeline_vars

NextChroma == CallChromaticAberration \/ CallChromaticAberrationBack

SpecChroma == InitChroma /\ [][NextChroma]_vars

\* salt_and_pepper_noise ---------------------------------------------------
\* Amounts tried, in hundredths: the default 0.01, and 0.1.
SaltPepperAmounts == {salt_and_pepper_amount, 10}

InitSaltPepper ==
    /\ PipelineIdle
    /\ \E h \in 1..MaxDim, w \in 1..MaxDim, seed \in 0..1,
          amount \in SaltPepperAmounts :
          call = Called("salt_and_pepper_noise", MakeFrame(h, w, seed), amount)

CallSaltPepperReturns ==
    /\ call.fn = "salt_and_pepper_noise"
    /\ call.at = "called"
    /\ ~salt_and_pepper_raises(call.frame)
    /\ \E noisy \in salt_and_pepper_noise(call.frame, call.arg) :
          call' = [call EXCEPT !.at = "returned", !.result = noisy]
    /\ UNCHANGED pipeline_vars

CallSaltPepperRaises ==
    /\ call.fn = "salt_and_pepper_noise"
    /\ call.at = "called"
    /\ salt_and_pepper_raises(call.frame)
    /\ call' = [call EXCEPT !.at = "raised"]
    /\ UNCHANGED pipeline_vars

NextSaltPepper == CallSaltPepperReturns \/ CallSaltPepperRaises

SpecSaltPepper == InitSaltPepper /\ [][NextSaltPepper]_vars

(***************************************************************************)
(* Properties of the pipeline (specification Spec).                        *)
(***************************************************************************)
\* The frames transform n can return for a frame.
TransformOf(n, frame) ==
    CASE n = "gaussian_noise" -> {gaussian_noise(frame, noise_level)}
      [] n = "compression" -> {compression_artifacts(frame, compression_quality)}
      [] n = "motion_blur" -> {motion_blur(frame, kernel_size)}
      [] n = "color_banding" -> {color_banding(frame, color_branding_levels)}
      [] n = "salt_pepper_noise" ->
             salt_and_pepper_noise(frame, salt_and_pepper_amount)
      [] n = "lens_distortion" -> {lens_distortion(frame, lens_k1, lens_k2)}
      [] n = "vignetting" -> {vignetting(frame)}
      [] n = "chromatic_aberration" ->
             {chromatic_aberration(frame, chromatic_aberration_shift)}
      [] n = "dust_particles" -> {dust_dirt_particles(frame, dust_particles)}

\* Sink n holds exactly k frames, the i-th its transform of the i-th source frame.
HoldsTransformed(n, k) ==
    /\ Len(sinks[n].frames) = k
    /\ \A i \in 1..k : sinks[n].frames[i] \in TransformOf(n, SourceFrame(video, i))

IsProgress(line) == line.kind = "progress"
ProgressLines == SelectSeq(console, IsProgress)

\* C1: between loop iterations, after frame_number of them, each of the nine
\* non-dropping sinks holds exactly frame_number frames, the i-th being the
\* sink's transform of the i-th decoded frame; once Closed each holds every
\* frame the source delivered, in source order.
C1_SinksFollowSource ==
    /\ pc = "streaming" =>
          \A n \in NonDropping : HoldsTransformed(n, frame_number)
    /\ pc = "closed" =>
          /\ frame_number = video.readable
          /\ \A n \in NonDropping : HoldsTransformed(n, video.readable)

C1_Witness ==
    /\ pc = "closed"
    /\ video.readable = video.nframes
    /\ frame_number >= 2
    /\ \A n \in NonDropping : Len(sinks[n].frames) = video.nframes
    /\ sinks["color_banding"].frames[2] # sinks["color_banding"].frames[1]

\* C2: once Closed, with drop_rate = 0.0 the frame-dropping sink holds every
\* frame the source delivered, bit-identical and in order, whatever value the
\* random draw returned; with drop_rate = 1.0 it holds none.
C2_DropSinkExact ==
    pc = "closed" =>
        /\ drop_rate = 0 =>
              /\ Len(sinks["frame_dropping"].frames) = video.readable
              /\ \A i \in 1..Len(sinks["frame_dropping"].frames) :
                    sinks["frame_dropping"].frames[i] = SourceFrame(video, i)
        /\ drop_rate = 1000 => sinks["frame_dropping"].frames = <<>>

\* C3: when the source fails to open the run reports the error and returns
\* with no sink created, no still written and no frame read.
C3_OpenFailureNoOutput ==
    (~video.opens /\ pc # "idle") =>
        /\ pc = "returned"
        /\ console = <<ErrorLine(video.path)>>
        /\ \A n \in Sinks : sinks[n] = NoSink
        /\ \A n \in NonDropping : stills[n] = <<>>
        /\ nread = 0

C3_Witness == pc = "returned" /\ ~video.opens /\ Len(console) = 1

\* C4 as claimed: every run whose source opens ends with exactly nine still
\* images, each written exactly once and holding its transform's output for
\* the first decoded frame.
C4_NineStillsEveryRun ==
    (pc = "closed" /\ video.opens) =>
        \A n \in NonDropping :
            /\ Len(stills[n]) = 1
            /\ stills[n][1] \in TransformOf(n, SourceFrame(video, 1))

\* C4 amended: a still image is written at most once, in the first iteration,
\* and is the very frame its sink received first, the transform's output for
\* the first decoded frame; once an iteration has completed all nine exist and
\* none is written again; a run whose source delivers no frame writes none.
C4_StillsFromFirstFrame ==
    /\ \A n \in NonDropping :
          /\ Len(stills[n]) <= 1
          /\ Len(stills[n]) = 1 =>
                /\ Len(sinks[n].frames) >= 1
                /\ stills[n][1] = sinks[n].frames[1]
                /\ stills[n][1] \in TransformOf(n, SourceFrame(video, 1))
    /\ frame_number >= 1 => \A n \in NonDropping : Len(stills[n]) = 1
    /\ (pc = "closed" /\ frame_number = 0) =>
          \A n \in NonDropping : stills[n] = <<>>

C4_Witness ==
    /\ pc = "closed"
    /\ frame_number >= 2
    /\ \A n \in NonDropping : Len(stills[n]) = 1

\* C5: on every terminating path (return after open failure, return after the
\* loop, an exception) the source is not left open; and where the source
\* opened, all ten sinks were opened before the first read and none is left
\* open at the end.
C5_EverythingClosedAtExit ==
    /\ pc \in {"returned", "closed", "raised"} =>
          /\ cap # "open"
          /\ \A n \in Sinks : sinks[n].state # "open"
          /\ video.opens => \A n \in Sinks : sinks[n].state = "released"
    /\ nread > 0 => \A n \in Sinks : sinks[n].state # "none"

\* The final state of a run over j frames: no error line, the start line, one
\* progress line per ten frames and the completion line; everything released;
\* the non-dropping sinks hold the j transformed frames and the dropping sink
\* some of the j frames, unmodified and in source order.  Nothing in it tells
\* how the stream ended or how many frames were stored behind the j-th.
FinalStateOfRunOver(j) ==
    /\ frame_number = j
    /\ nread = j + 1
    /\ \A i \in 1..Len(console) : console[i].kind # "error"
    /\ Len(console) = 2 + (j \div progress_every)
    /\ console[1] = StartLine(video.frame_count)
    /\ console[Len(console)] = CompleteLine
    /\ \A i \in 1..(j \div progress_every) :
          console[1 + i] = ProgressLine(progress_every * i, video.frame_count)
    /\ cap = "released"
    /\ \A n \in Sinks : sinks[n].state = "released"
    /\ \A n \in NonDropping : HoldsTransformed(n, j)
    /\ Len(sinks["frame_dropping"].frames) <= j
    /\ \A p \in 1..Len(sinks["frame_dropping"].frames) :
          \E i \in p..j :
              /\ sinks["frame_dropping"].frames[p] = SourceFrame(video, i)
              /\ \A q \in 1..(p - 1) : \E i0 \in 1..(i - 1) :
                    sinks["frame_dropping"].frames[q] = SourceFrame(video, i0)
    /\ \A n \in NonDropping : Len(stills[n]) = (IF j = 0 THEN 0 ELSE 1)

\* C6: a read that fails after j of the N stored frames ends the run exactly as
\* the end of a j-frame stream does: no error line, the j processed frames in
\* the sinks, source and sinks released, the completion line printed.
C6_DecodeFailureAsEndOfStream ==
    pc = "closed" => FinalStateOfRunOver(video.readable)

C6_Witness ==
    /\ pc = "closed"
    /\ video.readable < video.nframes
    /\ video.readable >= 1
    /\ console[Len(console)] = CompleteLine

\* C8: the progress lines printed so far are exactly those for the positive
\* multiples of 10 reached by frame_number, each showing that count; a closed
\* run over N frames has printed floor(N / 10) of them.
C8_ProgressEveryTen ==
    /\ Len(ProgressLines) = frame_number \div 10
    /\ \A i \in 1..Len(ProgressLines) :
          ProgressLines[i] = ProgressLine(10 * i, video.frame_count)
    /\ pc = "closed" => Len(ProgressLines) = video.readable \div 10

C8_Witness ==
    /\ pc = "closed"
    /\ Len(ProgressLines) = 2
    /\ frame_number > 20

(***************************************************************************)
(* Properties of the single calls.                                         *)
(***************************************************************************)
\* C7: salt_and_pepper_noise returns for every frame with h >= 1 and w >= 1,
\* and every pixel position of the frame can come out salted (255) or
\* peppered (0).
C7_FullIndexRange ==
    (call.fn = "salt_and_pepper_noise" /\ call.at # "called") =>
        /\ call.at = "returned"
        /\ \A r \in DOMAIN call.frame : \A c \in DOMAIN call.frame[r] :
              \E noisy \in salt_and_pepper_noise(call.frame, call.arg) :
                  noisy[r][c] \in {[ch \in 0..2 |-> 255], [ch \in 0..2 |-> 0]}

C10_CircularShift ==
    /\ (call.fn = "chromatic_aberration" /\ call.at \in {"returned", "inverted"}) =>
          /\ DOMAIN call.result = DOMAIN call.frame
          /\ \A y \in DOMAIN call.frame :
                /\ DOMAIN call.result[y] = DOMAIN call.frame[y]
                /\ \A x \in DOMAIN call.frame[y] :
                      LET w == Width(call.frame)
                      IN  /\ call.result[y][x][1] = call.frame[y][x][1]
                          /\ call.result[y][(x + call.arg) % w][0] = call.frame[y][x][0]
                          /\ call.result[y][(x - call.arg) % w][2] = call.frame[y][x][2]
    /\ (call.fn = "chromatic_aberration" /\ call.at = "inverted") =>
          call.back = call.frame

C10_Witness ==
    /\ call.fn = "chromatic_aberration"
    /\ call.at = "inverted"
    /\ call.arg = 0 - MaxShift
    /\ Width(call.frame) = 3
    /\ call.result # call.frame
    /\ call.back = call.frame

====
